---- MODULE Spec2Model ----
(***************************************************************************)
(* The gallery state machine of the Chat-to-3D application: the list of    *)
(* scene objects held in the gr.State `gallery_data`, the handlers that    *)
(* change it (src/app.py, src/components/image_card.py) and the projector  *)
(* shift_card_ui (src/components/image_gallery.py) that renders it.        *)
(*                                                                         *)
(* Python semantics kept by the model:                                     *)
(*  - gallery_data is a list of dicts.  list.copy() is a shallow copy, so  *)
(*    a handler's `updated_data[i][k] = v` changes the dict every holder   *)
(*    of that dict sees.  The dicts live in `heap`, lists are sequences of *)
(*    heap ids; only obj.copy() (seeding chain) makes a new dict.          *)
(*  - a key that is absent and a flag that is False read the same through  *)
(*    obj.get(k, False) / obj.get(k); the model keeps one value for both.  *)
(*  - every event chain step reads the gr.State value when it starts and   *)
(*    publishes its return value when it ends.  A handler that blocks in   *)
(*    an external call (image or 3D generation) is split at the call:      *)
(*    other listeners' handlers run while it is blocked.  One listener     *)
(*    runs one handler at a time (the queue's concurrency limit of 1).     *)
(*  - the fast steps that follow a data step in a chain (shift_card_ui,    *)
(*    update_start_over_state) are part of the action of the data step.    *)
(*  - the scene planner answers within the step that asks it; the image   *)
(*    and 3D services answer some time after they were called.             *)
(*  - the health endpoint of the LLM NIM answers as the environment likes: *)
(*    its answers are inputs of the start-over step; the model keeps the   *)
(*    flag _nim_bootstrap_started.                                         *)
(* Spec is the whole application under a user with MaxClicks clicks.       *)
(* SpecProject applies the projector to every list of at most MaxProjLen   *)
(* dicts.  SpecRace starts from a seeded gallery and lets refresh, delete,  *)
(* generate-3D and convert-all race, every started handler going on.       *)
(* Timestamps and the 3d_generated / 3d_generation_global keys are written *)
(* but never read by any handler or by the projector; they are left out.   *)
(***************************************************************************)
EXTENDS Integers, Sequences, FiniteSets, TLC

\* ------------------------------------------------------------------ bounds
\* objects the scene planner proposes for one scene, at most
MaxObjs == 3
\* accepted scene submissions in one run
MaxScenes == 2
\* length of the stores the projector is applied to in SpecProject
MaxProjLen == 2
\* clicks of the user in one run
MaxClicks == 4
\* objects of the seeded gallery SpecRace starts from, and the user's clicks
\* on it
RaceObjs == 2
MaxRaceClicks == 5
\* calls of the projector on one store in SpecProject
MaxProjections == 2

\* ------------------------------------------------------- program constants
MAX_CARDS == 20

None == "None"
PLACEHOLDER == "static/images/content_filtered.svg"
GENERATING_PLACEHOLDER_FILE == "generating.svg"
ImagePaths == {"img1.png", "img2.png"}
GlbPaths == {"m1.glb"}
Seeds == {1, 2}
ErrorMessage == "error"
InitialPrompt == "prompt"

\* ------------------------------------------------------------------ helpers
Min(a, b) == IF a < b THEN a ELSE b

Range(s) == {s[k] : k \in 1..Len(s)}

\* Python's truthiness of a path-like value (None and "" are falsy)
Truthy(v) == v # None /\ v # ""

\* gallery_data[card_idx], card_idx counted from 0 as in the source
At(gallery, card_idx) == gallery[card_idx + 1]

\* str.strip() on the texts the edit box can hold
Strip(text) ==
    CASE text = "   " -> ""
      [] text = " foo " -> "foo"
      [] OTHER -> text

EditTexts == {"", "   ", "foo", " foo "}

\* ------------------------------------------------------------ scene objects
\* the dict handle_scene_description builds for one proposed object
NewItem(obj_name, prompt) ==
    [title |-> obj_name,
     path |-> None,
     description |-> prompt,
     seed |-> 0,
     image_generating |-> TRUE,
     image_generation_failed |-> FALSE,
     image_generation_error |-> None,
     prompt_content_filtered |-> FALSE,
     glb_path |-> None,
     3d_generating |-> FALSE,
     content_filtered |-> FALSE,
     batch_processing |-> FALSE]

\* value of a heap cell no list refers to
FreeCell == [NewItem(0, None) EXCEPT !.image_generating = FALSE]

clear_image_generation_failure_flags(obj) ==
    [obj EXCEPT !.image_generation_failed = FALSE,
                !.image_generation_error = None,
                !.prompt_content_filtered = FALSE]

\* invalidate_3d_model that forgets the content_filtered key
InvalidateObjKeepsFiltered(obj) ==
    [obj EXCEPT !.glb_path = None,
                !.3d_generating = FALSE,
                !.batch_processing = FALSE]

\* invalidate_3d_model on the dict itself
InvalidateObj(obj) ==
    [obj EXCEPT !.glb_path = None,
                !.content_filtered = FALSE,
                !.3d_generating = FALSE,
                !.batch_processing = FALSE]

invalidate_3d_model(h, gallery_data, card_idx) ==
    [h EXCEPT ![At(gallery_data, card_idx)] = InvalidateObj(@)]

\* ---------------------------------------------------------------- projector
\* shift_card_ui: the image a card shows
CardImage(obj) ==
    IF Truthy(obj.path) THEN obj.path
    ELSE IF obj.image_generating THEN GENERATING_PLACEHOLDER_FILE
    ELSE None

\* is_processing without the batch flag
is_processing_without_batch(obj) ==
    obj.3d_generating \/ obj.image_generating

\* shift_card_ui: is_processing, which disables refresh, edit and delete
is_processing(obj) ==
    obj.3d_generating \/ obj.batch_processing \/ obj.image_generating

\* shift_card_ui: text and state of the 3D button.  The labels are written
\* in words: "done 3D" is the check-mark label, "filtered 3D" the
\* no-entry label, "generating 3D" the hourglass label and "to 3D" the
\* arrow label.
Button3D(obj) ==
    IF Truthy(obj.glb_path)
      THEN [text |-> "done 3D", interactive |-> FALSE]
    ELSE IF obj.content_filtered
      THEN [text |-> "filtered 3D", interactive |-> FALSE]
    ELSE IF obj.3d_generating
      THEN [text |-> "generating 3D", interactive |-> FALSE]
    ELSE IF obj.batch_processing
      THEN [text |-> "generating 3D", interactive |-> FALSE]
    ELSE IF obj.image_generating
      THEN [text |-> "to 3D", interactive |-> FALSE]
    ELSE [text |-> "to 3D", interactive |-> TRUE]

\* shift_card_ui: the updates of one visible card
CardUI(obj) ==
    [title |-> obj.title,
     image |-> CardImage(obj),
     refresh_interactive |-> ~is_processing(obj),
     edit_interactive |-> ~is_processing(obj),
     delete_interactive |-> ~is_processing(obj),
     button_text |-> Button3D(obj).text,
     button_interactive |-> Button3D(obj).interactive]

\* shift_card_ui: the updates of a card slot beyond the gallery (hidden)
HiddenCardUI ==
    [title |-> 0,
     image |-> None,
     refresh_interactive |-> TRUE,
     edit_interactive |-> TRUE,
     delete_interactive |-> TRUE,
     button_text |-> "to 3D",
     button_interactive |-> TRUE]

has_unconverted_items(h, gallery_data) ==
    \E k \in 1..Len(gallery_data) :
        /\ ~Truthy(h[gallery_data[k]].glb_path)
        /\ ~h[gallery_data[k]].3d_generating
        /\ ~h[gallery_data[k]].content_filtered

enable_convert_all(h, gallery_data) ==
    /\ has_unconverted_items(h, gallery_data)
    /\ ~(\E k \in 1..Len(gallery_data) : h[gallery_data[k]].batch_processing)
    /\ ~(\E k \in 1..Len(gallery_data) : h[gallery_data[k]].image_generating)
    /\ ~(\E k \in 1..Len(gallery_data) : h[gallery_data[k]].3d_generating)

\* shift_card_ui: `cards` holds the visible slots, every slot from
\* Len(cards) up to MAX_CARDS - 1 is hidden and shows HiddenCardUI
shift_card_ui(h, gallery_data) ==
    [cards |-> [k \in 1..Min(Len(gallery_data), MAX_CARDS)
                   |-> CardUI(h[gallery_data[k]])],
     placeholder_visible |-> (Len(gallery_data) = 0),
     convert_all_visible |-> (Len(gallery_data) > 0),
     convert_all_interactive |-> enable_convert_all(h, gallery_data)]

\* the card slot idx (from 0) of a rendered view
Slot(view, idx) ==
    IF idx < Len(view.cards) THEN view.cards[idx + 1] ELSE HiddenCardUI

SlotVisible(view, idx) == idx < Len(view.cards)

\* update_start_over_state: is the start-over button shown
update_start_over_state(in_workspace, h, gallery_data) ==
    IF ~in_workspace THEN FALSE
    ELSE IF Len(gallery_data) = 0 THEN FALSE
    ELSE ~(\E k \in 1..Len(gallery_data) :
              \/ h[gallery_data[k]].image_generating
              \/ h[gallery_data[k]].3d_generating
              \/ h[gallery_data[k]].batch_processing)

\* -------------------------------------------------------------------- state
VARIABLES
    mode,                \* _in_workspace_mode: "Planning" or "Workspace"
    heap,                \* the dicts, by id
    store,               \* gallery_components["data"]: the published list
    ui,                  \* what shift_card_ui rendered last
    start_over_visible,  \* what update_start_over_state rendered last
    edit_current_index,  \* gr.State of the edit modal, -1 for None
    edit_description,    \* the text box of the edit modal
    nim_bootstrap_started,  \* _nim_bootstrap_started
    rf,                  \* the refresh handler in flight
    ed,                  \* the edit handler in flight
    t3,                  \* the generate-3D chain in flight
    cb,                  \* the convert-all chain in flight
    sd,                  \* the scene chain in flight
    scenes,              \* accepted scene submissions so far
    clicks,              \* clicks the user has left in this run
    last                 \* the handler that returned last

vars == <<mode, heap, store, ui, start_over_visible, edit_current_index,
          edit_description, nim_bootstrap_started, rf, ed, t3, cb, sd,
          scenes, clicks, last>>

Ids == 1..(MaxObjs * (2 * MaxScenes + 2))

Idle == [pc |-> "idle", idx |-> 0, snap |-> <<>>]

Task(pc, idx, snap) == [pc |-> pc, idx |-> idx, snap |-> snap]

\* the record of the handler that returned last: which, for which card,
\* how it ended, and the model stage its target was in when it returned
Done(op, idx, out) == [op |-> op, idx |-> idx, out |-> out, was |-> ""]

DoneOn(op, idx, out, obj) ==
    [op |-> op, idx |-> idx, out |-> out,
     was |-> IF Truthy(obj.glb_path) THEN "Ready"
             ELSE IF obj.content_filtered THEN "ContentFiltered"
             ELSE IF obj.3d_generating THEN "Generating"
             ELSE "Empty"]

\* ids some list still refers to: the published one or a handler's own
Live(st, a, b, c, d, e) ==
    Range(st) \cup Range(a.snap) \cup Range(b.snap) \cup Range(c.snap)
              \cup Range(d.snap) \cup Range(e.snap)

\* a dict no list refers to is garbage: its cell is cleared
Canon(h, live) == [id \in Ids |-> IF id \in live THEN h[id] ELSE FreeCell]

FreeIds == Ids \ Live(store, rf, ed, t3, cb, sd)

RECURSIVE Lowest(_, _)
Lowest(S, n) ==
    IF n = 0 THEN <<>>
    ELSE LET m == CHOOSE x \in S : \A y \in S : x <= y
         IN  <<m>> \o Lowest(S \ {m}, n - 1)

InWorkspace == mode = "Workspace"

Init ==
    /\ mode = "Planning"
    /\ heap = [id \in Ids |-> FreeCell]
    /\ store = <<>>
    /\ ui = shift_card_ui(heap, <<>>)
    /\ start_over_visible = TRUE
    /\ edit_current_index = -1
    /\ edit_description = ""
    /\ nim_bootstrap_started = TRUE
    /\ rf = Idle
    /\ ed = Idle
    /\ t3 = Idle
    /\ cb = Idle
    /\ sd = Idle
    /\ scenes = 0
    /\ clicks = MaxClicks
    /\ last = Done("init", 0, "")

\* store the dicts objs[k] in the cells ids[k]
Put(h, ids, objs) ==
    [id \in Ids |->
        IF \E k \in 1..Len(ids) : ids[k] = id
        THEN objs[CHOOSE k \in 1..Len(ids) : ids[k] = id]
        ELSE h[id]]

\* the chain steps after a data step: shift_card_ui, and in the chains
\* that have it update_start_over_state
Render(h, g) == shift_card_ui(h, g)

\* -------------------------------------------------------------- scene chain
SceneOutcomes == {"blank", "not_scene", "planner_failed", "scene"}

\* handle_scene_input / handle_scene_description: the list it returns.
\* Only a scene for which the planner produced n > 0 prompts replaces the
\* list, by n new dicts in the cells `fresh`.
handle_scene_input(out, n, h, gallery_data, fresh) ==
    IF out = "scene"
    THEN [h |-> Put(h, fresh, [k \in 1..n |-> NewItem(k, InitialPrompt)]),
          g |-> fresh]
    ELSE [h |-> h, g |-> gallery_data]

\* reveal_workspace: the value of _in_workspace_mode after it
reveal_workspace(m, gallery_data) ==
    IF Len(gallery_data) = 0 THEN m ELSE "Workspace"

\* mark_images_generating: obj.copy() of every dict, into the cells `fresh`
mark_images_generating(m, h, gallery_data, fresh) ==
    IF Len(gallery_data) = 0 THEN [h |-> h, g |-> gallery_data]
    ELSE IF m # "Workspace" THEN [h |-> h, g |-> gallery_data]
    ELSE [h |-> Put(h, fresh,
                    [k \in 1..Len(gallery_data) |->
                        [h[gallery_data[k]] EXCEPT !.image_generating = TRUE]]),
          g |-> fresh]

\* a stop_llm_container that leaves the bootstrap flag as it is
stop_llm_container_keeps_flag(m, started) == started

\* stop_llm_container: the value of _nim_bootstrap_started after it; the
\* container is stopped and the flag reset only in workspace mode
stop_llm_container(m, started) == IF m = "Workspace" THEN FALSE ELSE started

\* send_btn.click chain up to stop_llm_container: handle_scene_input,
\* shift_card_ui, reveal_workspace, mark_images_generating, shift_card_ui,
\* update_start_over_state, stop_llm_container
SubmitScene(out, n) ==
    /\ clicks > 0
    /\ clicks' = clicks - 1
    /\ mode = "Planning"
    /\ sd.pc = "idle"
    /\ out = "scene" => scenes < MaxScenes
    /\ LET cnt == IF out = "scene" THEN n ELSE Len(store)
       IN  /\ Cardinality(FreeIds) >= 2 * cnt
           /\ LET fresh == Lowest(FreeIds, 2 * cnt)
                  r0 == handle_scene_input(out, n, heap, store,
                                           SubSeq(fresh, 1, cnt))
                  m1 == reveal_workspace(mode, r0.g)
                  r1 == mark_images_generating(m1, r0.h, r0.g,
                                               SubSeq(fresh, cnt + 1, 2 * cnt))
              IN  /\ mode' = m1
                  /\ store' = r1.g
                  /\ sd' = Task("pending", 0, <<>>)
                  /\ heap' = Canon(r1.h, Live(store', rf, ed, t3, cb, sd'))
                  /\ ui' = Render(heap', store')
                  /\ start_over_visible' =
                        update_start_over_state(m1 = "Workspace", heap', store')
    /\ nim_bootstrap_started' = stop_llm_container(mode', nim_bootstrap_started)
    /\ scenes' = IF out = "scene" THEN scenes + 1 ELSE scenes
    /\ last' = Done("submit", n, out)
    /\ UNCHANGED <<edit_current_index, edit_description, rf, ed, t3, cb>>

\* generate_images_for_gallery, up to its call of generate_images_for_objects
GenImagesStart ==
    /\ clicks' = clicks
    /\ sd.pc = "pending"
    /\ IF ~InWorkspace \/ Len(store) = 0
       THEN /\ sd' = Idle
            /\ last' = Done("images", 0, "skipped")
       ELSE /\ sd' = Task("calling", 0, store)
            /\ last' = Done("images", 0, "started")
    /\ heap' = Canon(heap, Live(store, rf, ed, t3, cb, sd'))
    /\ ui' = Render(heap', store)
    /\ start_over_visible' = update_start_over_state(InWorkspace, heap', store)
    /\ UNCHANGED <<mode, store, edit_current_index, edit_description,
                   nim_bootstrap_started, rf, ed, t3, cb, scenes>>

\* a generate_images_for_gallery that leaves image_generating as it is
generate_images_for_gallery_keeps_flag(h, gallery_data, got, fresh) ==
    [h |-> Put(h, fresh,
               [k \in 1..Len(gallery_data) |->
                   [h[gallery_data[k]] EXCEPT
                       !.path = IF h[gallery_data[k]].title \in got
                                THEN "img1.png" ELSE @]]),
     g |-> fresh]

\* generate_images_for_gallery after the call: `got` are the titles in
\* generated_images (empty when the service failed or raised); the list
\* it returns holds copies of the dicts it was given
generate_images_for_gallery(h, gallery_data, got, fresh) ==
    [h |-> Put(h, fresh,
               [k \in 1..Len(gallery_data) |->
                   [h[gallery_data[k]] EXCEPT
                       !.path = IF h[gallery_data[k]].title \in got
                                THEN "img1.png" ELSE @,
                       !.image_generating = FALSE]]),
     g |-> fresh]

GenImagesSettle(got) ==
    /\ clicks' = clicks
    /\ sd.pc = "calling"
    /\ got \subseteq {heap[sd.snap[k]].title : k \in 1..Len(sd.snap)}
    /\ Cardinality(FreeIds) >= Len(sd.snap)
    /\ LET r == generate_images_for_gallery(heap, sd.snap, got,
                                            Lowest(FreeIds, Len(sd.snap)))
       IN  /\ store' = r.g
           /\ sd' = Idle
           /\ heap' = Canon(r.h, Live(store', rf, ed, t3, cb, sd'))
    /\ ui' = Render(heap', store')
    /\ start_over_visible' = update_start_over_state(InWorkspace, heap', store')
    /\ last' = Done("images", Cardinality(got), "settled")
    /\ UNCHANGED <<mode, edit_current_index, edit_description,
                   nim_bootstrap_started, rf, ed, t3, cb, scenes>>

\* _ensure_llm_nim_started: the flag after it and what it did. With the flag
\* set it returns at once ("skipped"); else it sets the flag, asks the
\* health endpoint again, and returns if that answers 200 ("running") or
\* starts the thread that launches the LLM NIM ("started").
ensure_llm_nim_started(started, again) ==
    IF started THEN [started |-> TRUE, out |-> "skipped"]
    ELSE IF again THEN [started |-> TRUE, out |-> "running"]
    ELSE [started |-> TRUE, out |-> "started"]

\* go_to_first_screen: the health check and, when the LLM is not ready,
\* _ensure_llm_nim_started
go_to_first_screen(llm_ready, started, again) ==
    IF llm_ready THEN [started |-> started, out |-> "ready"]
    ELSE ensure_llm_nim_started(started, again)

\* start_over_btn.click chain: clear_gallery_state, go_to_first_screen;
\* llm_ready and again are the answers of the health endpoint
StartOver(llm_ready, again) ==
    /\ clicks > 0
    /\ clicks' = clicks - 1
    /\ InWorkspace
    /\ start_over_visible
    /\ store' = <<>>
    /\ mode' = "Planning"
    /\ heap' = Canon(heap, Live(store', rf, ed, t3, cb, sd))
    /\ LET r == go_to_first_screen(llm_ready, nim_bootstrap_started, again)
       IN  /\ nim_bootstrap_started' = r.started
           /\ last' = Done("start_over", 0, r.out)
    /\ UNCHANGED <<ui, start_over_visible, edit_current_index,
                   edit_description, rf, ed, t3, cb, sd, scenes>>

\* ------------------------------------------------------------ refresh image
ImageOutcomes == {"Success", "PROMPT_CONTENT_FILTERED", "Failure", "Raise"}

\* generate_image_from_prompt names the file it writes after the object, the
\* seed and the time of the call: a path no earlier call returned
NewImagePath(obj) == IF obj.path = "img1.png" THEN "img2.png" ELSE "img1.png"

\* refresh_image before the call: does it return gallery_data at once
RefreshReturnsEarly(h, gallery_data, card_idx) ==
    \/ card_idx >= Len(gallery_data)
    \/ h[At(gallery_data, card_idx)].title = 0
    \/ ~Truthy(h[At(gallery_data, card_idx)].description)

\* a refresh whose failure branch sets the flag and drops the message
RefreshedObjDropsMessage(obj, out, new_seed, new_image_path) ==
    IF out = "Raise"
    THEN [obj EXCEPT !.image_generating = FALSE]
    ELSE LET o1 ==
               IF out = "Success"
               THEN clear_image_generation_failure_flags(
                        [obj EXCEPT !.path = new_image_path,
                                    !.seed = new_seed])
               ELSE IF out = "PROMPT_CONTENT_FILTERED"
               THEN [obj EXCEPT !.path = PLACEHOLDER,
                                !.prompt_content_filtered = TRUE]
               ELSE [obj EXCEPT !.image_generation_failed = TRUE]
         IN  InvalidateObj([o1 EXCEPT !.image_generating = FALSE])

\* refresh_image after generate_image_from_prompt returned (or raised):
\* the dict at card_idx as the handler leaves it
RefreshedObj(obj, out, new_seed, new_image_path) ==
    IF out = "Raise"
    THEN [obj EXCEPT !.image_generating = FALSE]
    ELSE LET o1 ==
               IF out = "Success"
               THEN clear_image_generation_failure_flags(
                        [obj EXCEPT !.path = new_image_path,
                                    !.seed = new_seed])
               ELSE IF out = "PROMPT_CONTENT_FILTERED"
               THEN [obj EXCEPT !.path = PLACEHOLDER,
                                !.prompt_content_filtered = TRUE]
               ELSE [obj EXCEPT !.image_generation_failed = TRUE,
                                !.image_generation_error = ErrorMessage]
         IN  InvalidateObj([o1 EXCEPT !.image_generating = FALSE])

refresh_image(h, gallery_data, card_idx, out, new_seed, new_image_path) ==
    [h EXCEPT ![At(gallery_data, card_idx)] =
                  RefreshedObj(@, out, new_seed, new_image_path)]

\* refresh_btn.click of card i: refresh_specific_card up to the image call
RefreshStart(i) ==
    /\ clicks > 0
    /\ clicks' = clicks - 1
    /\ InWorkspace
    /\ SlotVisible(ui, i)
    /\ Slot(ui, i).refresh_interactive
    /\ rf.pc = "idle"
    /\ IF RefreshReturnsEarly(heap, store, i)
       THEN /\ rf' = Idle
            /\ last' = Done("refresh", i, "skipped")
       ELSE /\ rf' = Task("calling", i, store)
            /\ last' = Done("refresh", i, "started")
    /\ heap' = Canon(heap, Live(store, rf', ed, t3, cb, sd))
    /\ ui' = Render(heap', store)
    /\ UNCHANGED <<mode, store, start_over_visible, edit_current_index,
                   edit_description, nim_bootstrap_started, ed, t3, cb, sd,
                   scenes>>

\* refresh_specific_card returns, then shift_card_ui
RefreshSettle(out, new_seed, new_image_path) ==
    /\ clicks' = clicks
    /\ rf.pc = "calling"
    /\ new_image_path = NewImagePath(heap[At(rf.snap, rf.idx)])
    /\ store' = rf.snap
    /\ rf' = Idle
    /\ heap' = Canon(refresh_image(heap, rf.snap, rf.idx, out, new_seed,
                                   new_image_path),
                     Live(store', rf', ed, t3, cb, sd))
    /\ ui' = Render(heap', store')
    /\ last' = DoneOn("refresh", rf.idx, out, heap[At(rf.snap, rf.idx)])
    /\ UNCHANGED <<mode, start_over_visible, edit_current_index,
                   edit_description, nim_bootstrap_started, ed, t3, cb, sd,
                   scenes>>

\* --------------------------------------------------------- edit description
\* edit_btn.click of card i: open_edit_modal
EditOpen(i) ==
    /\ clicks > 0
    /\ clicks' = clicks - 1
    /\ InWorkspace
    /\ SlotVisible(ui, i)
    /\ Slot(ui, i).edit_interactive
    /\ edit_current_index' = i
    /\ edit_description' = IF i < Len(store)
                           THEN heap[At(store, i)].description
                           ELSE ""
    /\ last' = Done("edit_open", i, "")
    /\ UNCHANGED <<mode, heap, store, ui, start_over_visible,
                   nim_bootstrap_started, rf, ed, t3, cb, sd, scenes>>

\* cancel_edit_btn.click
EditCancel ==
    /\ clicks > 0
    /\ clicks' = clicks - 1
    /\ InWorkspace
    /\ edit_current_index # -1
    /\ edit_current_index' = -1
    /\ edit_description' = ""
    /\ last' = Done("edit_cancel", 0, "")
    /\ UNCHANGED <<mode, heap, store, ui, start_over_visible,
                   nim_bootstrap_started, rf, ed, t3, cb, sd, scenes>>

\* update_object_description before the call: does it return gallery_data
EditReturnsEarly(gallery_data, edit_idx, new_description) ==
    \/ edit_idx = -1
    \/ edit_idx >= Len(gallery_data)
    \/ ~Truthy(new_description)
    \/ ~Truthy(Strip(new_description))

\* an update that leaves the 3D model of the edited object in place
EditedObjKeepsModel(obj, out, new_seed, new_image_path) ==
    IF out = "Success"
    THEN [obj EXCEPT !.path = new_image_path, !.seed = new_seed]
    ELSE obj

\* update_object_description after generate_image_from_prompt returned
EditedObj(obj, out, new_seed, new_image_path) ==
    LET o1 == IF out = "Success"
              THEN [obj EXCEPT !.path = new_image_path, !.seed = new_seed]
              ELSE obj
    IN  InvalidateObj(o1)

update_object_description(h, gallery_data, edit_idx, out, new_seed, path) ==
    [h EXCEPT ![At(gallery_data, edit_idx)] =
                  EditedObj(@, out, new_seed, path)]

\* update_edit_btn.click: update_object_description up to the image call;
\* the description is written before the call
EditSubmit(new_description) ==
    /\ clicks > 0
    /\ clicks' = clicks - 1
    /\ InWorkspace
    /\ edit_current_index # -1
    /\ ed.pc = "idle"
    /\ IF EditReturnsEarly(store, edit_current_index, new_description)
       THEN /\ ed' = Idle
            /\ edit_current_index' = -1
            /\ edit_description' = ""
            /\ heap' = heap
            /\ last' = Done("edit", edit_current_index, "rejected")
       ELSE /\ ed' = Task("calling", edit_current_index, store)
            /\ edit_current_index' = edit_current_index
            /\ edit_description' = new_description
            /\ heap' = [heap EXCEPT ![At(store, edit_current_index)].description
                                        = Strip(new_description)]
            /\ last' = Done("edit", edit_current_index, "started")
    /\ ui' = IF ed'.pc = "idle" THEN Render(heap', store) ELSE ui
    /\ UNCHANGED <<mode, store, start_over_visible, nim_bootstrap_started,
                   rf, t3, cb, sd, scenes>>

\* update_object_description returns (or raises: it has no try, so an
\* exception of the image call leaves the handler, nothing is published and
\* last.out reads "raised"), then shift_card_ui, then the modal is closed
EditSettle(out, new_seed, new_image_path) ==
    /\ clicks' = clicks
    /\ ed.pc = "calling"
    /\ new_image_path = NewImagePath(heap[At(ed.snap, ed.idx)])
    /\ store' = IF out = "Raise" THEN store ELSE ed.snap
    /\ ed' = Idle
    /\ heap' = Canon(IF out = "Raise" THEN heap
                     ELSE update_object_description(heap, ed.snap, ed.idx, out,
                                                    new_seed, new_image_path),
                     Live(store', rf, ed', t3, cb, sd))
    /\ ui' = Render(heap', store')
    /\ edit_current_index' = -1
    /\ edit_description' = ""
    /\ last' = DoneOn("edit", ed.idx, IF out = "Raise" THEN "raised" ELSE out,
                      heap[At(ed.snap, ed.idx)])
    /\ UNCHANGED <<mode, start_over_visible, nim_bootstrap_started,
                   rf, t3, cb, sd, scenes>>

\* -------------------------------------------------------------- generate 3D
ModelOutcomes == {"Success", "CONTENT_FILTERED", "Failure", "Raise"}

\* Model3DService.generate_3d_model cannot encode an image it has no path
\* of: without a path the call fails
ModelOutcomesFor(image_path) ==
    IF Truthy(image_path) THEN ModelOutcomes ELSE {"Failure", "Raise"}

\* generate_3d_for_card: the immediate update
generate_3d_for_card(h, gallery_data, card_idx) ==
    IF card_idx < Len(gallery_data)
    THEN [h EXCEPT ![At(gallery_data, card_idx)].3d_generating = TRUE]
    ELSE h

\* generate_3d_model before the call: does it return gallery_data at once
Generate3DReturnsEarly(h, gallery_data, card_idx) ==
    \/ card_idx >= Len(gallery_data)
    \/ h[At(gallery_data, card_idx)].title = 0
    \/ ~Truthy(h[At(gallery_data, card_idx)].path)
    \/ Truthy(h[At(gallery_data, card_idx)].glb_path)

\* an answer whose failure branch leaves 3d_generating set
ModelResultObjFailureKeepsGenerating(obj, out, glb_path) ==
    IF out = "Success"
    THEN [obj EXCEPT !.glb_path = glb_path, !.3d_generating = FALSE]
    ELSE IF out = "CONTENT_FILTERED"
    THEN [obj EXCEPT !.3d_generating = FALSE, !.content_filtered = TRUE]
    ELSE obj

\* an answer written without resetting 3d_generating on success
ModelResultObjKeepsGenerating(obj, out, glb_path) ==
    IF out = "Success"
    THEN [obj EXCEPT !.glb_path = glb_path]
    ELSE IF out = "CONTENT_FILTERED"
    THEN [obj EXCEPT !.3d_generating = FALSE, !.content_filtered = TRUE]
    ELSE [obj EXCEPT !.3d_generating = FALSE]

\* what the 3D service's answer writes into a dict (the same statements in
\* generate_3d_model and in the second pass of perform_batch_3d_conversion)
ModelResultObj(obj, out, glb_path) ==
    IF out = "Success"
    THEN [obj EXCEPT !.glb_path = glb_path, !.3d_generating = FALSE]
    ELSE IF out = "CONTENT_FILTERED"
    THEN [obj EXCEPT !.3d_generating = FALSE, !.content_filtered = TRUE]
    ELSE [obj EXCEPT !.3d_generating = FALSE]

generate_3d_model(h, gallery_data, card_idx, out, glb_path) ==
    [h EXCEPT ![At(gallery_data, card_idx)] = ModelResultObj(@, out, glb_path)]

\* to_3d_btn.click of card i: generate_3d_for_card, shift_card_ui,
\* update_start_over_state.  The chain holds no list between its steps;
\* t3.snap keeps the dict the step marked, which the properties refer to.
To3DClick(i) ==
    /\ clicks > 0
    /\ clicks' = clicks - 1
    /\ InWorkspace
    /\ SlotVisible(ui, i)
    /\ Slot(ui, i).button_interactive
    /\ t3.pc = "idle"
    /\ t3' = Task("marked", i, <<At(store, i)>>)
    /\ heap' = Canon(generate_3d_for_card(heap, store, i),
                     Live(store, rf, ed, t3', cb, sd))
    /\ ui' = Render(heap', store)
    /\ start_over_visible' = update_start_over_state(InWorkspace, heap', store)
    /\ last' = DoneOn("to3d", i, "marked", heap[At(store, i)])
    /\ UNCHANGED <<mode, store, edit_current_index, edit_description,
                   nim_bootstrap_started, rf, ed, cb, sd, scenes>>

\* perform_3d_generation starts: generate_3d_model up to the 3D call
To3DStart ==
    /\ clicks' = clicks
    /\ t3.pc = "marked"
    /\ IF Generate3DReturnsEarly(heap, store, t3.idx)
       THEN /\ t3' = Idle
            /\ last' = Done("to3d", t3.idx, "skipped")
       ELSE /\ t3' = Task("calling", t3.idx, store)
            /\ last' = Done("to3d", t3.idx, "started")
    /\ heap' = Canon(heap, Live(store, rf, ed, t3', cb, sd))
    /\ ui' = IF t3'.pc = "idle" THEN Render(heap', store) ELSE ui
    /\ start_over_visible' =
          IF t3'.pc = "idle"
          THEN update_start_over_state(InWorkspace, heap', store)
          ELSE start_over_visible
    /\ UNCHANGED <<mode, store, edit_current_index, edit_description,
                   nim_bootstrap_started, rf, ed, cb, sd, scenes>>

\* perform_3d_generation returns, then shift_card_ui, update_start_over_state
To3DSettle(out, glb_path) ==
    /\ clicks' = clicks
    /\ t3.pc = "calling"
    /\ out \in ModelOutcomesFor(heap[At(t3.snap, t3.idx)].path)
    /\ store' = t3.snap
    /\ t3' = Idle
    /\ heap' = Canon(generate_3d_model(heap, t3.snap, t3.idx, out, glb_path),
                     Live(store', rf, ed, t3', cb, sd))
    /\ ui' = Render(heap', store')
    /\ start_over_visible' = update_start_over_state(InWorkspace, heap', store')
    /\ last' = DoneOn("to3d", t3.idx, out, heap[At(t3.snap, t3.idx)])
    /\ UNCHANGED <<mode, edit_current_index, edit_description,
                   nim_bootstrap_started, rf, ed, cb, sd, scenes>>

\* -------------------------------------------------------------------- delete
delete_specific_card(gallery_data, card_idx) ==
    IF card_idx < Len(gallery_data)
    THEN SubSeq(gallery_data, 1, card_idx)
            \o SubSeq(gallery_data, card_idx + 2, Len(gallery_data))
    ELSE gallery_data

\* delete_btn.click of card i, then shift_card_ui
Delete(i) ==
    /\ clicks > 0
    /\ clicks' = clicks - 1
    /\ InWorkspace
    /\ SlotVisible(ui, i)
    /\ Slot(ui, i).delete_interactive
    /\ store' = delete_specific_card(store, i)
    /\ heap' = Canon(heap, Live(store', rf, ed, t3, cb, sd))
    /\ ui' = Render(heap', store')
    /\ last' = Done("delete", i, "")
    /\ UNCHANGED <<mode, start_over_visible, edit_current_index,
                   edit_description, nim_bootstrap_started, rf, ed, t3, cb, sd,
                   scenes>>

\* --------------------------------------------------------------- convert all
\* disable_all_buttons (Stage A)
disable_all_buttons(h, gallery_data) ==
    [id \in Ids |->
        IF id \in Range(gallery_data)
        THEN [h[id] EXCEPT !.batch_processing = TRUE]
        ELSE h[id]]

\* perform_batch_3d_conversion, first pass: is the dict queued
Unconverted(obj) ==
    /\ ~Truthy(obj.glb_path)
    /\ ~obj.3d_generating
    /\ ~obj.content_filtered

total_unconverted(h, gallery_data) ==
    Cardinality({k \in 1..Len(gallery_data) : Unconverted(h[gallery_data[k]])})

FirstPass(h, gallery_data) ==
    [id \in Ids |->
        IF id \in Range(gallery_data) /\ Unconverted(h[id])
        THEN [h[id] EXCEPT !.3d_generating = TRUE]
        ELSE h[id]]

\* a final pass that clears the flag only on the dicts without a model
ClearBatchOfUnconverted(h, gallery_data) ==
    [id \in Ids |->
        IF id \in Range(gallery_data) /\ ~Truthy(h[id].glb_path)
        THEN [h[id] EXCEPT !.batch_processing = FALSE]
        ELSE h[id]]

\* perform_batch_3d_conversion, the pass that clears batch_processing
ClearBatch(h, gallery_data) ==
    [id \in Ids |->
        IF id \in Range(gallery_data)
        THEN [h[id] EXCEPT !.batch_processing = FALSE]
        ELSE h[id]]

\* perform_batch_3d_conversion, the except branch
BatchExcept(h, gallery_data) ==
    [id \in Ids |->
        IF id \in Range(gallery_data)
        THEN [h[id] EXCEPT !.3d_generating = FALSE,
                           !.batch_processing = FALSE]
        ELSE h[id]]

\* second pass: the indices (from 0) at or after `from` whose dict reads
\* 3d_generating when the loop gets there
Pending(h, gallery_data, from) ==
    {k \in from..(Len(gallery_data) - 1) : h[At(gallery_data, k)].3d_generating}

MinOf(S) == CHOOSE x \in S : \A y \in S : x <= y

\* convert_all_btn.click: disable_all_buttons, shift_card_ui,
\* update_start_over_state
ConvertAllClick ==
    /\ clicks > 0
    /\ clicks' = clicks - 1
    /\ InWorkspace
    /\ ui.convert_all_visible
    /\ ui.convert_all_interactive
    /\ cb.pc = "idle"
    /\ cb' = Task("locked", 0, <<>>)
    /\ heap' = Canon(disable_all_buttons(heap, store),
                     Live(store, rf, ed, t3, cb', sd))
    /\ ui' = Render(heap', store)
    /\ start_over_visible' = update_start_over_state(InWorkspace, heap', store)
    /\ last' = Done("convert_all", 0, "locked")
    /\ UNCHANGED <<mode, store, edit_current_index, edit_description,
                   nim_bootstrap_started, rf, ed, t3, sd, scenes>>

\* perform_batch_3d_conversion (Stage B) starts: the first pass; with
\* nothing to convert it returns at once
BatchStart ==
    /\ clicks' = clicks
    /\ cb.pc = "locked"
    /\ IF Len(store) = 0
       THEN /\ cb' = Idle
            /\ heap' = Canon(heap, Live(store, rf, ed, t3, cb', sd))
            /\ last' = Done("batch", 0, "empty")
       ELSE IF total_unconverted(heap, store) = 0
       THEN /\ cb' = Idle
            /\ heap' = Canon(ClearBatch(heap, store),
                             Live(store, rf, ed, t3, cb', sd))
            /\ last' = Done("batch", 0, "nothing")
       ELSE /\ cb' = Task("running", 0, store)
            /\ heap' = Canon(FirstPass(heap, store),
                             Live(store, rf, ed, t3, cb', sd))
            /\ last' = Done("batch", 0, "started")
    /\ ui' = IF cb'.pc = "idle" THEN Render(heap', store) ELSE ui
    /\ start_over_visible' =
          IF cb'.pc = "idle"
          THEN update_start_over_state(InWorkspace, heap', store)
          ELSE start_over_visible
    /\ UNCHANGED <<mode, store, edit_current_index, edit_description,
                   nim_bootstrap_started, rf, ed, t3, sd, scenes>>

\* second pass: the loop reaches the next dict that reads 3d_generating
\* and calls the 3D service for it
BatchCall ==
    /\ clicks' = clicks
    /\ cb.pc = "running"
    /\ Pending(heap, cb.snap, cb.idx) # {}
    /\ cb' = Task("calling", MinOf(Pending(heap, cb.snap, cb.idx)), cb.snap)
    /\ last' = Done("batch", cb'.idx, "calling")
    /\ UNCHANGED <<mode, heap, store, ui, start_over_visible,
                   edit_current_index, edit_description, nim_bootstrap_started,
                   rf, ed, t3, sd, scenes>>

\* second pass: the 3D service answers; on an exception the except branch
\* ends the handler
BatchReturn(out, glb_path) ==
    /\ clicks' = clicks
    /\ cb.pc = "calling"
    /\ out \in ModelOutcomesFor(heap[At(cb.snap, cb.idx)].path)
    /\ IF out = "Raise"
       THEN /\ cb' = Idle
            /\ store' = cb.snap
            /\ heap' = Canon(BatchExcept(heap, cb.snap),
                             Live(store', rf, ed, t3, cb', sd))
            /\ ui' = Render(heap', store')
            /\ start_over_visible' =
                  update_start_over_state(InWorkspace, heap', store')
       ELSE /\ cb' = Task("running", cb.idx + 1, cb.snap)
            /\ store' = store
            /\ heap' = generate_3d_model(heap, cb.snap, cb.idx, out, glb_path)
            /\ ui' = ui
            /\ start_over_visible' = start_over_visible
    /\ last' = Done("batch", cb.idx, out)
    /\ UNCHANGED <<mode, edit_current_index, edit_description,
                   nim_bootstrap_started, rf, ed, t3, sd, scenes>>

\* the loop is through: the final pass, then the handler returns and
\* shift_card_ui, update_start_over_state follow
BatchFinish ==
    /\ clicks' = clicks
    /\ cb.pc = "running"
    /\ Pending(heap, cb.snap, cb.idx) = {}
    /\ cb' = Idle
    /\ store' = cb.snap
    /\ heap' = Canon(ClearBatch(heap, cb.snap),
                     Live(store', rf, ed, t3, cb', sd))
    /\ ui' = Render(heap', store')
    /\ start_over_visible' = update_start_over_state(InWorkspace, heap', store')
    /\ last' = Done("batch", 0, "finished")
    /\ UNCHANGED <<mode, edit_current_index, edit_description,
                   nim_bootstrap_started, rf, ed, t3, sd, scenes>>

\* --------------------------------------------------------------------- system
Next ==
    \/ \E out \in SceneOutcomes, n \in 1..MaxObjs : SubmitScene(out, n)
    \/ GenImagesStart
    \/ \E got \in SUBSET (1..MaxObjs) : GenImagesSettle(got)
    \/ \E llm_ready, again \in BOOLEAN : StartOver(llm_ready, again)
    \/ \E i \in 0..(MaxObjs - 1) : RefreshStart(i)
    \/ \E out \in ImageOutcomes, s \in Seeds, p \in ImagePaths :
          RefreshSettle(out, s, p)
    \/ \E i \in 0..(MaxObjs - 1) : EditOpen(i)
    \/ EditCancel
    \/ \E text \in EditTexts : EditSubmit(text)
    \/ \E out \in ImageOutcomes, s \in Seeds, p \in ImagePaths :
          EditSettle(out, s, p)
    \/ \E i \in 0..(MaxObjs - 1) : To3DClick(i)
    \/ To3DStart
    \/ \E out \in ModelOutcomes, g \in GlbPaths : To3DSettle(out, g)
    \/ \E i \in 0..(MaxObjs - 1) : Delete(i)
    \/ ConvertAllClick
    \/ BatchStart
    \/ BatchCall
    \/ \E out \in ModelOutcomes, g \in GlbPaths : BatchReturn(out, g)
    \/ BatchFinish

Spec == Init /\ [][Next]_vars

\* ------------------------------------------------------ the projector alone
\* shift_card_ui applied to any list of at most MaxProjLen dicts, whatever
\* keys they hold
ProjPaths == {None, "img1.png"}

ProjObjs(k) ==
    {[NewItem(k, InitialPrompt) EXCEPT
          !.path = p, !.image_generating = ig, !.image_generation_failed = f,
          !.prompt_content_filtered = pf, !.glb_path = glb,
          !.3d_generating = tg, !.content_filtered = cf,
          !.batch_processing = bp] :
       p \in ProjPaths, ig \in BOOLEAN, f \in BOOLEAN, pf \in BOOLEAN,
       glb \in {None} \cup GlbPaths, tg \in BOOLEAN, cf \in BOOLEAN,
       bp \in BOOLEAN}

InitProject ==
    /\ mode = "Workspace"
    /\ \E n \in 0..MaxProjLen :
          \E objs \in [1..n -> ProjObjs(0)] :
              /\ store = [k \in 1..n |-> k]
              /\ heap = [id \in Ids |->
                            IF id <= n THEN [objs[id] EXCEPT !.title = id]
                            ELSE FreeCell]
    /\ ui = shift_card_ui(heap, <<>>)
    /\ start_over_visible = FALSE
    /\ edit_current_index = -1
    /\ edit_description = ""
    /\ nim_bootstrap_started = FALSE
    /\ rf = Idle
    /\ ed = Idle
    /\ t3 = Idle
    /\ cb = Idle
    /\ sd = Idle
    /\ scenes = 0
    /\ clicks = 0
    /\ last = Done("init", 0, "")

\* a projector that resets batch_processing on the dicts it renders
shift_card_ui_touching(h, gallery_data) ==
    [id \in Ids |->
        IF id \in Range(gallery_data)
        THEN [h[id] EXCEPT !.batch_processing = FALSE]
        ELSE h[id]]

\* shift_card_ui: the dicts after a call. It reads gallery_data with
\* obj[...] and obj.get(...) and assigns to none of them.
shift_card_ui_dicts(h, gallery_data) == h

\* one call of shift_card_ui on the list; last.idx counts the calls
Project ==
    /\ last.op \in {"init", "project"}
    /\ last.idx < MaxProjections
    /\ ui' = shift_card_ui(heap, store)
    /\ heap' = shift_card_ui_dicts(heap, store)
    /\ last' = Done("project", last.idx + 1, "")
    /\ UNCHANGED <<mode, store, start_over_visible, edit_current_index,
                   edit_description, nim_bootstrap_started, rf, ed, t3, cb, sd,
                   scenes, clicks>>

NextProject == Project

SpecProject == InitProject /\ [][NextProject]_vars

\* ------------------------------------------- handlers racing on one gallery
\* The workspace as the seeding chain leaves it when every image was
\* generated, and a user who clicks refresh, delete, 3D and convert-all.
\* Every handler that has started goes on: the event queue runs each step
\* of a chain, and the image and 3D services answer.
SeededObj(k) ==
    [NewItem(k, InitialPrompt) EXCEPT !.path = "img1.png",
                                      !.image_generating = FALSE]

InitRace ==
    /\ mode = "Workspace"
    /\ store = [k \in 1..RaceObjs |-> k]
    /\ heap = [id \in Ids |-> IF id <= RaceObjs THEN SeededObj(id)
                                                ELSE FreeCell]
    /\ ui = shift_card_ui(heap, store)
    /\ start_over_visible = update_start_over_state(TRUE, heap, store)
    /\ edit_current_index = -1
    /\ edit_description = ""
    /\ nim_bootstrap_started = FALSE
    /\ rf = Idle
    /\ ed = Idle
    /\ t3 = Idle
    /\ cb = Idle
    /\ sd = Idle
    /\ scenes = MaxScenes
    /\ clicks = MaxRaceClicks
    /\ last = Done("images", RaceObjs, "settled")

RaceImageOutcomes == {"Success", "Failure"}

RaceModelOutcomes == {"Success", "Failure"}

RefreshReturns ==
    \E out \in RaceImageOutcomes, s \in Seeds, p \in ImagePaths :
        RefreshSettle(out, s, p)

To3DReturns ==
    \E out \in RaceModelOutcomes, g \in GlbPaths : To3DSettle(out, g)

BatchReturns ==
    \E out \in RaceModelOutcomes, g \in GlbPaths : BatchReturn(out, g)

NextRace ==
    \/ \E i \in 0..(RaceObjs - 1) : RefreshStart(i)
    \/ RefreshReturns
    \/ \E i \in 0..(RaceObjs - 1) : To3DClick(i)
    \/ To3DStart
    \/ To3DReturns
    \/ \E i \in 0..(RaceObjs - 1) : Delete(i)
    \/ ConvertAllClick
    \/ BatchStart
    \/ BatchCall
    \/ BatchReturns
    \/ BatchFinish

SpecRace ==
    /\ InitRace
    /\ [][NextRace]_vars
    /\ WF_vars(RefreshReturns)
    /\ WF_vars(To3DStart)
    /\ WF_vars(To3DReturns)
    /\ WF_vars(BatchStart)
    /\ WF_vars(BatchCall)
    /\ WF_vars(BatchReturns)
    /\ WF_vars(BatchFinish)

\* the state InitRace starts from, but for the clicks left
Seeded ==
    /\ mode = "Workspace"
    /\ store = [k \in 1..RaceObjs |-> k]
    /\ heap = [id \in Ids |-> IF id <= RaceObjs THEN SeededObj(id)
                                                ELSE FreeCell]
    /\ ui = shift_card_ui(heap, store)
    /\ start_over_visible
    /\ edit_current_index = -1
    /\ edit_description = ""
    /\ ~nim_bootstrap_started
    /\ rf = Idle /\ ed = Idle /\ t3 = Idle /\ cb = Idle /\ sd = Idle
    /\ scenes = MaxScenes
    /\ last = Done("images", RaceObjs, "settled")

\* ------------------------------------------------------- states of an object
\* the image stage is Ready: a path and none of the three image markers
ImageReady(obj) ==
    /\ Truthy(obj.path)
    /\ ~obj.image_generating
    /\ ~obj.image_generation_failed
    /\ ~obj.prompt_content_filtered

\* the model stage is Empty
ModelEmpty(obj) ==
    /\ ~Truthy(obj.glb_path)
    /\ ~obj.3d_generating
    /\ ~obj.content_filtered

\* the dicts of the published list
StoreObjs == {heap[store[k]] : k \in 1..Len(store)}

Count(flags) == Cardinality({k \in 1..Len(flags) : flags[k]})

\* ---------------------------------------------------------------- properties
\* C1: in every reachable state, every object of the store whose image is
\* not Ready (no path, image_generating, image_generation_failed or
\* prompt_content_filtered) has an Empty model: no glb_path, 3d_generating
\* false, no content_filtered.
C1_ModelEmptyUnlessImageReady ==
    \A obj \in StoreObjs : ~ImageReady(obj) => ModelEmpty(obj)

\* C10: in every reachable state, every object has at most one of the image
\* markers image_generating, image_generation_failed, prompt_content_filtered
\* set, and at most one of the model markers 3d_generating, glb_path,
\* content_filtered.
C10_StageMarkersExclusive ==
    \A obj \in StoreObjs :
        /\ Count(<<obj.image_generating, obj.image_generation_failed,
                   obj.prompt_content_filtered>>) <= 1
        /\ Count(<<obj.3d_generating, Truthy(obj.glb_path),
                   obj.content_filtered>>) <= 1

\* the 3D button the priority table gives an object, first match wins
Table3D(obj) ==
    IF Truthy(obj.glb_path)
      THEN [text |-> "done 3D", interactive |-> FALSE]
    ELSE IF obj.content_filtered
      THEN [text |-> "filtered 3D", interactive |-> FALSE]
    ELSE IF obj.3d_generating \/ obj.batch_processing
      THEN [text |-> "generating 3D", interactive |-> FALSE]
    ELSE IF ~ImageReady(obj)
      THEN [text |-> "to 3D", interactive |-> FALSE]
    ELSE [text |-> "to 3D", interactive |-> TRUE]

\* C6: for every combination of an object's flags the projector gives the
\* 3D button of the priority table: glb_path -> done, disabled;
\* content_filtered -> filtered, disabled; 3d_generating or batch_processing
\* -> generating, disabled; image not Ready -> "to 3D" disabled; otherwise
\* "to 3D" enabled.
C6_Button3DFollowsTable ==
    last.op = "project" =>
        \A k \in 1..Len(store) :
            /\ ui.cards[k].button_text = Table3D(heap[store[k]]).text
            /\ ui.cards[k].button_interactive
                  = Table3D(heap[store[k]]).interactive

\* the condition under which the convert-all control is to be enabled
ConvertAllRule(h, gallery_data) ==
    /\ Len(gallery_data) > 0
    /\ \A k \in 1..Len(gallery_data) :
          /\ ~h[gallery_data[k]].batch_processing
          /\ ~h[gallery_data[k]].image_generating
          /\ ~h[gallery_data[k]].3d_generating
    /\ \E k \in 1..Len(gallery_data) :
          ImageReady(h[gallery_data[k]]) /\ ModelEmpty(h[gallery_data[k]])

\* C7: for every store the projector enables convert-all if and only if the
\* store is not empty, no object has batch_processing, image_generating or
\* 3d_generating, and at least one object has a Ready image and an Empty
\* model.
C7_ConvertAllEnabledIff ==
    last.op = "project" =>
        (ui.convert_all_interactive <=> ConvertAllRule(heap, store))

\* C8: for every object of every store the projector makes refresh, edit
\* and delete non-interactive if and only if the object has image_generating
\* or 3d_generating or batch_processing, and the three buttons have the same
\* interactive value.
C8_CardButtonsLockedIffProcessing ==
    last.op = "project" =>
        \A k \in 1..Len(store) :
            LET locked == \/ heap[store[k]].image_generating
                          \/ heap[store[k]].3d_generating
                          \/ heap[store[k]].batch_processing
            IN  /\ ui.cards[k].refresh_interactive = ~locked
                /\ ui.cards[k].edit_interactive = ~locked
                /\ ui.cards[k].delete_interactive = ~locked

\* a projected store with a card locked by the batch flag alone next to a
\* card that is not locked
C8_Witness ==
    /\ last.op = "project"
    /\ Len(store) = 2
    /\ heap[store[1]].batch_processing
    /\ ~heap[store[1]].image_generating
    /\ ~heap[store[1]].3d_generating
    /\ ~ui.cards[1].delete_interactive
    /\ ui.cards[2].refresh_interactive

\* C2: whenever Stage B (perform_batch_3d_conversion) has returned, however
\* the 3D calls ended (Success, Failure, CONTENT_FILTERED or an exception in
\* the loop), no object of the store it returned has batch_processing set.
C2_StageBReturnsNoBatchFlag ==
    (last.op = "batch"
        /\ last.out \in {"empty", "nothing", "finished", "Raise"}) =>
        \A obj \in StoreObjs : ~obj.batch_processing

\* Stage B ended by an exception in its first call, for the object at
\* index 0, on a store that holds an object converted before the batch
C2_Witness ==
    /\ last = Done("batch", 0, "Raise")
    /\ Len(store) >= 2
    /\ \E obj \in StoreObjs : Truthy(obj.glb_path)
    /\ \A obj \in StoreObjs : ~obj.batch_processing

\* C9: when refresh_image or update_object_description has returned after a
\* Success or PROMPT_CONTENT_FILTERED answer of the image generator, the
\* object at its index has an Empty model (no glb_path, no content_filtered,
\* 3d_generating false); after a filtered refresh the object is marked
\* prompt_content_filtered and its path is the placeholder asset.
C9_ImageChangeInvalidatesModel ==
    (last.op \in {"refresh", "edit"}
        /\ last.out \in {"Success", "PROMPT_CONTENT_FILTERED"}) =>
        /\ ModelEmpty(heap[At(store, last.idx)])
        /\ (last.op = "refresh" /\ last.out = "PROMPT_CONTENT_FILTERED") =>
              /\ heap[At(store, last.idx)].prompt_content_filtered
              /\ heap[At(store, last.idx)].path = PLACEHOLDER

\* a refresh answered PROMPT_CONTENT_FILTERED for an object whose model was
\* ContentFiltered when the handler returned
C9_Witness ==
    /\ last.op = "refresh"
    /\ last.out = "PROMPT_CONTENT_FILTERED"
    /\ last.was = "ContentFiltered"
    /\ ModelEmpty(heap[At(store, last.idx)])

\* the fields of an object a settle of another object's handler must not touch
SameObject(a, b) ==
    /\ a.title = b.title
    /\ a.description = b.description
    /\ a.path = b.path
    /\ a.seed = b.seed
    /\ a.glb_path = b.glb_path
    /\ a.3d_generating = b.3d_generating
    /\ a.content_filtered = b.content_filtered

\* C4: when delete(i) was processed while the refresh of index i was in
\* flight, the step in which the refresh settles does not bring the deleted
\* object back into the store and leaves the object that occupies index i
\* (if any) with the title, description, path, seed and model state it had.
C4_RefreshSettleAfterDelete ==
    [][(/\ rf.pc = "calling"
        /\ rf'.pc = "idle"
        /\ last.op = "delete"
        /\ last.idx = rf.idx
        /\ At(rf.snap, rf.idx) \notin Range(store))
       => /\ At(rf.snap, rf.idx) \notin Range(store')
          /\ rf.idx < Len(store) =>
                /\ rf.idx < Len(store')
                /\ SameObject(heap'[At(store', rf.idx)],
                              heap[At(store, rf.idx)])]_vars

\* C5: when a delete of an index j <= i was processed between the immediate
\* phase of generate-3D(i) and its settle phase, and index i now refers to
\* another object than the one marked, the settle phase returns without
\* calling the 3D service and without changing that object.
C5_SettleDiscardsAfterDelete ==
    [][(/\ t3.pc = "marked"
        /\ t3'.pc # "marked"
        /\ last.op = "delete"
        /\ last.idx <= t3.idx
        /\ t3.idx < Len(store)
        /\ At(store, t3.idx) # t3.snap[1])
       => /\ t3'.pc = "idle"
          /\ heap'[At(store, t3.idx)] = heap[At(store, t3.idx)]]_vars

AnyBatchFlag == \E obj \in StoreObjs : obj.batch_processing

\* C3: no object is left in batch mode for good: whenever an object of the
\* store has batch_processing set (only Stage A, disable_all_buttons, sets
\* it), a state is reached later in which no object of the store has it,
\* whatever other handlers run between the steps of the convert-all chain.
C3_BatchModeEnds == AnyBatchFlag ~> ~AnyBatchFlag

\* the card of the object at index idx (from 0) as rendered last
Card(idx) == ui.cards[idx + 1]

CardLocked(idx) ==
    /\ ~Card(idx).refresh_interactive
    /\ ~Card(idx).edit_interactive
    /\ ~Card(idx).delete_interactive

CardUnlocked(idx) ==
    /\ Card(idx).refresh_interactive
    /\ Card(idx).edit_interactive
    /\ Card(idx).delete_interactive

\* C11: generate-3D(i) on an object with a Ready image and an Empty model
\* first publishes a store that is rendered with the hourglass 3D button,
\* disabled, and refresh, edit and delete disabled for card i, while the 3D
\* service is not yet called; and when the service has answered Success
\* for the object marked Generating, the published store is rendered with
\* the check-mark button, disabled, and refresh, edit and delete enabled.
C11_LockThenResult ==
    /\ (last.op = "to3d" /\ last.out = "marked" /\ last.was = "Empty"
            /\ ImageReady(heap[At(store, last.idx)])) =>
          /\ t3.pc = "marked"
          /\ Card(last.idx).button_text = "generating 3D"
          /\ ~Card(last.idx).button_interactive
          /\ CardLocked(last.idx)
    /\ (last.op = "to3d" /\ last.out = "Success"
            /\ last.was = "Generating"
            /\ ImageReady(heap[At(store, last.idx)])
            /\ ~heap[At(store, last.idx)].batch_processing) =>
          /\ Card(last.idx).button_text = "done 3D"
          /\ ~Card(last.idx).button_interactive
          /\ CardUnlocked(last.idx)

\* the 3D service answered Success for an object the click had marked
C11_Witness ==
    /\ last.op = "to3d"
    /\ last.out = "Success"
    /\ last.was = "Generating"
    /\ ImageReady(heap[At(store, last.idx)])
    /\ ~heap[At(store, last.idx)].batch_processing
    /\ Card(last.idx).button_text = "done 3D"
    /\ CardUnlocked(last.idx)

\* C12: Stage B passes to the 3D service only objects whose image is Ready:
\* every step in which the second pass of the batch reaches a call is a
\* call for an object with a Ready image.
C12_BatchCallsReadyImagesOnly ==
    [][(cb.pc = "running" /\ cb'.pc = "calling") =>
          ImageReady(heap[At(cb.snap, cb'.idx)])]_vars

\* the fields convert-all has to leave alone on an object it does not convert
FrameOf(obj) ==
    <<obj.title, obj.description, obj.path, obj.image_generating,
      obj.image_generation_failed, obj.prompt_content_filtered,
      obj.glb_path, obj.3d_generating, obj.content_filtered>>

\* eligible for conversion: image Ready and model Empty
Eligible(obj) == ImageReady(obj) /\ ModelEmpty(obj)

\* C13: the step in which Stage B starts (first pass, or the return at once
\* of a batch with nothing to do) leaves every object of the store that is
\* not eligible unchanged in title, description, image state and model
\* state.
C13_BatchStartFramesNonEligible ==
    [][(cb.pc = "locked" /\ cb'.pc # "locked") =>
          \A k \in 1..Len(store) :
              ~Eligible(heap[store[k]]) =>
                  FrameOf(heap'[store[k]]) = FrameOf(heap[store[k]])]_vars

\* C14: when the 3D call of Stage B for one object ends in Failure or in an
\* exception, the object's model stage is Empty again and the loop goes
\* on: the objects queued at a higher index stay queued and the handler
\* is still in its loop, so that they are passed to the 3D service next.
C14_BatchGoesOnAfterFailure ==
    [][(cb.pc = "calling" /\ last'.op = "batch"
            /\ last'.out \in {"Failure", "Raise"}) =>
          /\ ModelEmpty(heap'[At(cb.snap, cb.idx)])
          /\ Pending(heap, cb.snap, cb.idx + 1) # {} =>
                /\ cb'.pc = "running"
                /\ Pending(heap', cb.snap, cb.idx + 1)
                      = Pending(heap, cb.snap, cb.idx + 1)]_vars

\* C15: edit-description(i, text) with a non-blank text writes the trimmed
\* text as the description of object i before the image call; when the
\* call returns Success for an object whose model was Ready, the object
\* keeps that description, has the path the generator returned, a seed
\* drawn for this call and an Empty model, and no other object of the
\* list the handler returns has changed.
C15_EditSuccessPostcondition ==
    [][/\ (ed.pc = "idle" /\ ed'.pc = "calling") =>
             /\ heap'[At(store, ed'.idx)].description
                   = Strip(edit_description')
             /\ \A k \in 0..(Len(store) - 1) :
                   k # ed'.idx => heap'[At(store, k)] = heap[At(store, k)]
       /\ (ed.pc = "calling" /\ last'.op = "edit" /\ last'.out = "Success"
              /\ Truthy(heap[At(ed.snap, ed.idx)].glb_path)) =>
             LET before == heap[At(ed.snap, ed.idx)]
                 after == heap'[At(ed.snap, ed.idx)]
             IN  /\ after.description = before.description
                 /\ after.path = NewImagePath(before)
                 /\ after.path # before.path
                 /\ after.seed \in Seeds
                 /\ ModelEmpty(after)
                 /\ \A k \in 0..(Len(ed.snap) - 1) :
                       k # ed.idx =>
                           heap'[At(ed.snap, k)] = heap[At(ed.snap, k)]]_vars

\* an edit, with a text that trims to "foo", of an object that had a model has
\* returned after a Success of the image generator
C15_Witness ==
    /\ last.op = "edit"
    /\ last.out = "Success"
    /\ last.was = "Ready"
    /\ last.idx < Len(store)
    /\ heap[At(store, last.idx)].description = "foo"
    /\ heap[At(store, last.idx)].seed \in Seeds
    /\ ModelEmpty(heap[At(store, last.idx)])

\* the fields of the dicts of a list, in the order of the list
Contents(h, gallery_data) == [k \in 1..Len(gallery_data) |-> h[gallery_data[k]]]

\* C16: blank input is rejected without a change of state: an edit
\* submitted with a blank text leaves the store and its objects as they
\* were and starts no image call, and a blank scene submission leaves the
\* store, its objects and the Planning/Workspace mode as they were.
C16_BlankInputChangesNothing ==
    [][/\ (clicks' = clicks - 1 /\ last'.op = "edit"
              /\ last'.out = "rejected") =>
             /\ Contents(heap', store') = Contents(heap, store)
             /\ ed'.pc = "idle"
       /\ (clicks' = clicks - 1 /\ last'.op = "submit"
              /\ last'.out = "blank") =>
             /\ Contents(heap', store') = Contents(heap, store)
             /\ mode' = mode]_vars

\* C17: the app goes from Planning to Workspace only in a scene submission
\* for which the planner produced a non-empty object list; a submission
\* that is blank, not a scene, or for which the planner failed leaves the
\* app in Planning.
C17_WorkspaceOnlyByScene ==
    [][(mode = "Planning" /\ mode' = "Workspace") =>
          /\ last'.op = "submit"
          /\ last'.out = "scene"
          /\ last'.idx > 0
          /\ Len(store') = last'.idx]_vars

CoreOps == {"refresh", "edit", "to3d", "delete", "convert_all", "batch"}

\* C20: no handler of a gallery action (refresh, edit, generate-3D, delete,
\* convert-all Stage A and B) ends in an exception that leaves the
\* handler, whatever the store, the index and the answer of the image or
\* 3D service, an exception included.
C20_NoHandlerRaises ==
    last.op \in CoreOps => last.out # "raised"

\* C21: refresh-image(i) is accepted only on an object whose image is not
\* Generating, and while the handler waits for the image generator the
\* published store shows object i with image_generating set, so that the
\* card is rendered locked.
C21_RefreshMarksGenerating ==
    rf.pc = "calling" =>
        /\ rf.idx < Len(store)
        /\ heap[At(store, rf.idx)].image_generating
        /\ CardLocked(rf.idx)

\* C22: generate-3D(i) marks an object Generating only if its image is
\* Ready and its model is Empty: a click on any other object leaves the
\* object as it is.
C22_To3DMarksEligibleOnly ==
    [][(clicks' = clicks - 1 /\ last'.op = "to3d" /\ last'.out = "marked"
            /\ ~Eligible(heap[At(store, last'.idx)])) =>
          heap'[At(store, last'.idx)] = heap[At(store, last'.idx)]]_vars

\* C23: when the 3D service answers Failure to generate-3D(i), the settle
\* step changes nothing of the object but 3d_generating, which it resets
\* (so no field takes the error text), and changes no other object of the
\* list it returns; an object that was Generating is Empty after it, and
\* if its image is Ready and no batch holds it the card shows the 3D
\* button enabled for a new attempt.
C23_To3DFailureResetsToEmpty ==
    [][(t3.pc = "calling" /\ last'.op = "to3d" /\ last'.out = "Failure") =>
          LET before == heap[At(t3.snap, t3.idx)]
              after == heap'[At(t3.snap, t3.idx)]
          IN  /\ after = [before EXCEPT !.3d_generating = FALSE]
              /\ \A k \in 0..(Len(t3.snap) - 1) :
                    k # t3.idx =>
                        heap'[At(t3.snap, k)] = heap[At(t3.snap, k)]
              /\ last'.was = "Generating" => ModelEmpty(after)
              /\ (last'.was = "Generating" /\ ImageReady(after)
                     /\ ~after.batch_processing) =>
                    /\ ui'.cards[t3.idx + 1].button_text = "to 3D"
                    /\ ui'.cards[t3.idx + 1].button_interactive]_vars

\* generate-3D on an object with a Ready image has ended in Failure and
\* the card offers the 3D button again
C23_Witness ==
    /\ last.op = "to3d"
    /\ last.out = "Failure"
    /\ last.was = "Generating"
    /\ last.idx < Len(store)
    /\ ImageReady(heap[At(store, last.idx)])
    /\ ModelEmpty(heap[At(store, last.idx)])
    /\ Card(last.idx).button_text = "to 3D"
    /\ Card(last.idx).button_interactive

\* C24: when the image generator answers Failure to refresh-image(i), the
\* settled object has image_generation_failed set and carries the message,
\* keeps the path and the seed it had, has an Empty model whatever model
\* it had, and every other object of the list returned is unchanged.
C24_RefreshFailurePostcondition ==
    [][(rf.pc = "calling" /\ last'.op = "refresh"
            /\ last'.out = "Failure") =>
          LET before == heap[At(rf.snap, rf.idx)]
              after == heap'[At(rf.snap, rf.idx)]
          IN  /\ after.image_generation_failed
              /\ after.image_generation_error = ErrorMessage
              /\ ~after.image_generating
              /\ after.path = before.path
              /\ after.seed = before.seed
              /\ after.title = before.title
              /\ after.description = before.description
              /\ ModelEmpty(after)
              /\ \A k \in 0..(Len(rf.snap) - 1) :
                    k # rf.idx =>
                        heap'[At(rf.snap, k)] = heap[At(rf.snap, k)]]_vars

\* a refresh of an object that had a 3D model has ended in Failure
C24_Witness ==
    /\ last.op = "refresh"
    /\ last.out = "Failure"
    /\ last.was = "Ready"
    /\ last.idx < Len(store)
    /\ heap[At(store, last.idx)].image_generation_failed
    /\ heap[At(store, last.idx)].image_generation_error = ErrorMessage
    /\ Truthy(heap[At(store, last.idx)].path)
    /\ ModelEmpty(heap[At(store, last.idx)])

\* the fields that carry the image stage and the model stage of an object
StageFields(obj) ==
    <<obj.path, obj.seed, obj.image_generating, obj.image_generation_failed,
      obj.image_generation_error, obj.prompt_content_filtered,
      obj.glb_path, obj.3d_generating, obj.content_filtered>>

\* C25: an edit whose image call succeeds leaves the object in the image
\* and model state in which a successful refresh from the same prior state
\* leaves it: new path, new seed, the failure and prompt-filter flags of
\* an earlier image call cleared, model Empty.
C25_EditSuccessAsRefreshSuccess ==
    [][(ed.pc = "calling" /\ last'.op = "edit" /\ last'.out = "Success") =>
          LET before == heap[At(ed.snap, ed.idx)]
              after == heap'[At(ed.snap, ed.idx)]
          IN  \E s \in Seeds :
                StageFields(after) =
                  StageFields(RefreshedObj(before, "Success", s,
                                           NewImagePath(before)))]_vars

\* the fields that carry the model stage of an object
ModelFields(obj) == <<obj.glb_path, obj.3d_generating, obj.content_filtered>>

\* C26: an object whose model is ContentFiltered keeps its model stage and
\* is not passed to the 3D service, in any step of generate-3D or of
\* convert-all (refresh and edit are the steps that may change it).
C26_FilteredModelIsTerminal ==
    [][last'.op \in {"to3d", "convert_all", "batch"} =>
         \A k \in 1..Len(store) :
            LET id == store[k]
            IN  (heap[id].content_filtered /\ ~Truthy(heap[id].glb_path)
                   /\ heap'[id].title = heap[id].title) =>
                  /\ ModelFields(heap'[id]) = ModelFields(heap[id])
                  /\ (t3'.pc = "calling" /\ t3.pc # "calling") =>
                        At(t3'.snap, t3'.idx) # id
                  /\ (cb'.pc = "calling" /\ last'.out = "calling") =>
                        At(cb'.snap, cb'.idx) # id]_vars

\* the titles of the dicts of a list, in order
TitlesOf(h, gallery_data) ==
    [k \in 1..Len(gallery_data) |-> h[gallery_data[k]].title]

\* the planner numbers the objects of a scene 1..n, so a subsequence of
\* the seeded list has increasing titles within 1..n
IsSubsequenceOfSeed(titles, n) ==
    /\ \A a, b \in 1..Len(titles) : a < b => titles[a] < titles[b]
    /\ \A k \in 1..Len(titles) : titles[k] \in 1..n

\* a delete step removes exactly the dict at index last'.idx, or nothing
\* when the index is out of range, and writes no dict of the store
DeleteRemovesExactlyOne ==
    [][(clicks' = clicks - 1 /\ last'.op = "delete") =>
          /\ store' = IF last'.idx < Len(store)
                      THEN [k \in 1..(Len(store) - 1) |->
                              IF k <= last'.idx THEN store[k]
                                                ELSE store[k + 1]]
                      ELSE store
          /\ \A k \in 1..Len(store') : heap'[store'[k]] = heap[store'[k]]]_vars

\* once a scene of n objects was accepted, a step that is not a scene
\* submission leaves a subsequence of the n seeded objects in the store
StoreStaysWithinSeed ==
    [][(last.op = "submit" /\ last.out = "scene" /\ last'.op # "submit") =>
          IsSubsequenceOfSeed(TitlesOf(heap', store'), last.idx)]_vars

\* C27: delete removes exactly the object at the index it is given and
\* leaves the others as they are and in order (the store unchanged when
\* the index is out of range), and the store is always a subsequence of
\* the list the last accepted scene seeded.
C27_DeleteAndSubsequence == DeleteRemovesExactlyOne /\ StoreStaysWithinSeed

\* C28: when the settle step of a generate-3D chain has returned, by
\* whichever return path, the object the click marked has 3d_generating
\* false.
C28_To3DAlwaysUnlocks ==
    [][(last'.op = "to3d" /\ last'.out \notin {"marked", "started"}) =>
          LET id == IF t3.pc = "marked" THEN t3.snap[1]
                                        ELSE At(t3.snap, t3.idx)
          IN  id \in Range(store') => ~heap'[id].3d_generating]_vars

\* C29: in Planning mode the store is empty.
C29_PlanningStoreEmpty == mode = "Planning" => store = <<>>

\* the seeding chain has completed and left no image_generating flag
SeedingLeftNoFlag ==
    (last.op = "images" /\ last.out \in {"settled", "skipped"}) =>
        \A k \in 1..Len(store) : ~heap[store[k]].image_generating

\* generate_images_for_gallery returns a copy of every dict it was given,
\* with image_generating reset and nothing but the path changed; of the
\* dicts that had no path, exactly those that got an image have one
SeedingSettleStep ==
    [][(sd.pc = "calling" /\ last'.op = "images" /\ last'.out = "settled") =>
          /\ Len(store') = Len(sd.snap)
          /\ \A k \in 1..Len(sd.snap) :
                LET before == heap[sd.snap[k]]
                    after == heap'[store'[k]]
                IN  /\ ~after.image_generating
                    /\ [after EXCEPT !.path = before.path]
                          = [before EXCEPT !.image_generating = FALSE]
          /\ (\A k \in 1..Len(sd.snap) : heap[sd.snap[k]].path = None) =>
                Cardinality({k \in 1..Len(store') :
                                Truthy(heap'[store'[k]].path)}) = last'.idx]_vars

\* C30: when the chain of an accepted scene submission has completed, no
\* object of the store has image_generating set, whether the bulk image
\* generation gave an image to all, some or none of the objects; the
\* objects that got none have no path.
C30_SeedingClearsGenerating == []SeedingLeftNoFlag /\ SeedingSettleStep

C30_Witness ==
    /\ last.op = "images" /\ last.out = "settled"
    /\ Len(store) > 1
    /\ last.idx = 1
    /\ \E k \in 1..Len(store) : heap[store[k]].path = None
    /\ \A k \in 1..Len(store) : ~heap[store[k]].image_generating

====
